---- MODULE Spec2Model ----
(***************************************************************************)
(* A model of firebasil's Realtime-Database event stream:                  *)
(*   src/src/firebasil/sse/sse_client.py  (SseClient: open, the read task   *)
(*                                         listen_to_response, close)      *)
(*   src/src/firebasil/rtdb.py            (RtdbNode.events and on_message)  *)
(*                                                                         *)
(* Bytes are modelled at the granularity of tokens: a token stands for a   *)
(* run of bytes that the network never splits in the model (a word, a      *)
(* colon, a space, a line feed).  A chunk is any number of consecutive     *)
(* tokens.  Text is a sequence of tokens.                                  *)
(***************************************************************************)
EXTENDS Integers, Sequences, FiniteSets, TLC

\* The largest number of SSE blocks the server sends on one connection.
MaxBlocks == 2

\* The largest number of nodes, the root included, that a program builds.
MaxNodes == 3

\* The largest number of segments given to one child() call.
MaxSegs == 2

\* The deepest nesting of the JSON values given to snakeify_dict_keys.
MaxDepth == 3

LF == "LF"
SP == " "
COLON == ":"

\* Python's None, where a string stands for a scalar value.
NoneV == "None"

(***************************************************************************)
(* Python values that json.loads can return for the data field.            *)
(***************************************************************************)
PyNone == [type |-> "NoneType", keys |-> {}, path |-> NoneV, data |-> NoneV]

PyInt == [type |-> "int", keys |-> {}, path |-> NoneV, data |-> NoneV]

PyDict(p, d) == [type |-> "dict", keys |-> {"path", "data"}, path |-> p, data |-> d]

\* The JSON texts of the model (each one token) and json.loads of each.
JsonTexts == {"null", "1", "{path:/a,data:1}", "{path:/b,data:null}"}

json_loads(tok) ==
    CASE tok = "null" -> PyNone
      [] tok = "1" -> PyInt
      [] tok = "{path:/a,data:1}" -> PyDict("/a", "1")
      [] tok = "{path:/b,data:null}" -> PyDict("/b", NoneV)

(***************************************************************************)
(* Text helpers: str.rstrip("\n"), str.split("\n"), str.endswith,          *)
(* str.strip, str.split(":", 1).                                           *)
(***************************************************************************)
RECURSIVE rstrip_lf(_)
rstrip_lf(s) ==
    IF s # <<>> /\ s[Len(s)] = LF THEN rstrip_lf(SubSeq(s, 1, Len(s) - 1)) ELSE s

RECURSIVE split_lf(_)
split_lf(s) ==
    IF \E i \in 1..Len(s) : s[i] = LF
    THEN LET i == CHOOSE j \in 1..Len(s) : s[j] = LF /\ \A k \in 1..(j - 1) : s[k] # LF
         IN <<SubSeq(s, 1, i - 1)>> \o split_lf(SubSeq(s, i + 1, Len(s)))
    ELSE <<s>>

endswith_lf(s) == s # <<>> /\ s[Len(s)] = LF

endswith_lflf(s) == Len(s) >= 2 /\ s[Len(s)] = LF /\ s[Len(s) - 1] = LF

RECURSIVE lstrip(_)
lstrip(s) == IF s # <<>> /\ s[1] = SP THEN lstrip(Tail(s)) ELSE s

RECURSIVE rstrip(_)
rstrip(s) == IF s # <<>> /\ s[Len(s)] = SP THEN rstrip(SubSeq(s, 1, Len(s) - 1)) ELSE s

strip(s) == rstrip(lstrip(s))

HasColon(line) == \E i \in 1..Len(line) : line[i] = COLON

FirstColon(line) ==
    CHOOSE i \in 1..Len(line) : line[i] = COLON /\ \A k \in 1..(i - 1) : line[k] # COLON

\* The value taken after the last colon of the line.
value_raw_last_colon(line) ==
    SubSeq(line,
           (CHOOSE i \in 1..Len(line) :
                line[i] = COLON /\ \A k \in (i + 1)..Len(line) : line[k] # COLON) + 1,
           Len(line))

\* line.split(":", 1), for a line that holds a colon.
key_raw(line) == SubSeq(line, 1, FirstColon(line) - 1)

value_raw(line) == SubSeq(line, FirstColon(line) + 1, Len(line))

(***************************************************************************)
(* bytes.decode("utf-8").  The two-byte character e-acute is the lead byte *)
(* C3 followed by the continuation byte A9; every other token is ASCII.    *)
(***************************************************************************)
LEAD == "C3"
CONT == "A9"

RECURSIVE utf8_ok(_)
utf8_ok(bs) ==
    IF bs = <<>> THEN TRUE
    ELSE IF bs[1] = LEAD THEN Len(bs) >= 2 /\ bs[2] = CONT /\ utf8_ok(SubSeq(bs, 3, Len(bs)))
    ELSE IF bs[1] = CONT THEN FALSE
    ELSE utf8_ok(Tail(bs))

RECURSIVE utf8_decode(_)
utf8_decode(bs) ==
    IF bs = <<>> THEN <<>>
    ELSE IF bs[1] = LEAD THEN <<"e-acute">> \o utf8_decode(SubSeq(bs, 3, Len(bs)))
    ELSE <<bs[1]>> \o utf8_decode(Tail(bs))

(***************************************************************************)
(* SseMessage and emit_message's parse of the accumulated lines.           *)
(***************************************************************************)
NoText == [some |-> FALSE, s |-> <<>>]

SomeText(t) == [some |-> TRUE, s |-> t]

MessageFields == {<<"event">>, <<"data">>, <<"origin">>, <<"last_event_id">>}

\* The for loop of emit_message over lines[i..]: the dictionary built so far is d.
\* The result is [exc, dict]; exc names the exception that ended the loop.
RECURSIVE message_dict(_, _, _)
message_dict(lines, i, d) ==
    IF i > Len(lines) THEN [exc |-> "none", dict |-> d]
    ELSE LET line == lines[i] IN
         IF line = <<>> THEN message_dict(lines, i + 1, d)
         ELSE IF ~HasColon(line) THEN [exc |-> "ValueError", dict |-> d]
         ELSE LET key == strip(key_raw(line))
                  value == strip(value_raw(line))
              IN IF key = <<"data">>
                 THEN IF Len(value) = 1 /\ value[1] \in JsonTexts
                      THEN message_dict(lines, i + 1,
                               [k \in DOMAIN d \cup {key} |->
                                   IF k = key THEN json_loads(value[1]) ELSE d[k]])
                      ELSE [exc |-> "JSONDecodeError", dict |-> d]
                 ELSE message_dict(lines, i + 1,
                          [k \in DOMAIN d \cup {key} |-> IF k = key THEN value ELSE d[k]])

EmptyDict == [k \in {} |-> <<>>]

\* SseMessage(**message_dict): event is required, no other keyword is accepted.
SseMessage(d) ==
    [event |-> d[<<"event">>],
     data |-> IF <<"data">> \in DOMAIN d THEN d[<<"data">>] ELSE PyNone,
     origin |-> IF <<"origin">> \in DOMAIN d THEN SomeText(d[<<"origin">>]) ELSE NoText,
     last_event_id |-> IF <<"last_event_id">> \in DOMAIN d
                       THEN SomeText(d[<<"last_event_id">>]) ELSE NoText]

\* emit_message(lines) up to the call of loop.create_task: [exc, message].
emit_message(lines) ==
    LET r == message_dict(lines, 1, EmptyDict) IN
    IF r.exc # "none" THEN [exc |-> r.exc, message |-> <<>>]
    ELSE IF <<"event">> \notin DOMAIN r.dict \/ ~(DOMAIN r.dict \subseteq MessageFields)
    THEN [exc |-> "TypeError", message |-> <<>>]
    ELSE [exc |-> "none", message |-> <<SseMessage(r.dict)>>]

(***************************************************************************)
(* One iteration of "async for new_bytes in self.response.content" with    *)
(* the chunk new_bytes: the new line_bytes and message_lines, and the      *)
(* lines handed to emit_message (emit says whether it is called).          *)
(***************************************************************************)
FrameStep(lb, ml, new_bytes) ==
    IF Len(new_bytes) = 0 THEN [line_bytes |-> lb, message_lines |-> ml, emit |-> FALSE, lines |-> <<>>]
    ELSE LET bytes == lb \o new_bytes IN
         IF ~utf8_ok(bytes)
         THEN [line_bytes |-> bytes, message_lines |-> ml, emit |-> FALSE, lines |-> <<>>]
         ELSE LET decoded_line == utf8_decode(bytes) IN
              IF ~endswith_lf(decoded_line)
              THEN [line_bytes |-> bytes, message_lines |-> ml, emit |-> FALSE, lines |-> <<>>]
              ELSE LET stripped_line == rstrip_lf(decoded_line)
                       all == ml \o split_lf(stripped_line)
                   IN IF endswith_lflf(decoded_line) \/ decoded_line = <<LF>>
                      THEN [line_bytes |-> <<>>, message_lines |-> <<>>, emit |-> TRUE, lines |-> all]
                      ELSE [line_bytes |-> <<>>, message_lines |-> all, emit |-> FALSE, lines |-> <<>>]

(***************************************************************************)
(* RtdbNode.events: the mapping of an SseMessage to an RtdbEvent made by   *)
(* on_message, up to "await events.put(event)": [exc, event].              *)
(***************************************************************************)
EventType == {<<"put">>, <<"patch">>, <<"keep-alive">>, <<"cancel">>, <<"auth_revoked">>}

RtdbEvent(e, p, d) == [event |-> e, path |-> p, data |-> d]

\* on_message with the payload dropped when the inner data is None.
on_message_falsy_data(message) ==
    IF message.data = PyNone \/ (message.data.type = "dict" /\ message.data.data = NoneV)
    THEN IF message.event \in EventType
         THEN [exc |-> "none", event |-> <<RtdbEvent(message.event, NoneV, NoneV)>>]
         ELSE [exc |-> "ValueError", event |-> <<>>]
    ELSE IF message.data.type = "dict"
    THEN IF message.event \notin EventType THEN [exc |-> "ValueError", event |-> <<>>]
         ELSE [exc |-> "none",
               event |-> <<RtdbEvent(message.event, message.data.path, message.data.data)>>]
    ELSE [exc |-> "UnboundLocalError", event |-> <<>>]

\* on_message with keep-alive left out of the event kinds it accepts.
on_message_no_keep_alive(message) ==
    IF message.event \notin (EventType \ {<<"keep-alive">>})
    THEN [exc |-> "ValueError", event |-> <<>>]
    ELSE IF message.data = PyNone
    THEN [exc |-> "none", event |-> <<RtdbEvent(message.event, NoneV, NoneV)>>]
    ELSE IF message.data.type = "dict"
    THEN [exc |-> "none",
          event |-> <<RtdbEvent(message.event, message.data.path, message.data.data)>>]
    ELSE [exc |-> "UnboundLocalError", event |-> <<>>]

on_message(message) ==
    IF message.data = PyNone
    THEN IF message.event \in EventType
         THEN [exc |-> "none", event |-> <<RtdbEvent(message.event, NoneV, NoneV)>>]
         ELSE [exc |-> "ValueError", event |-> <<>>]
    ELSE IF message.data.type = "dict"
    THEN IF message.event \notin EventType THEN [exc |-> "ValueError", event |-> <<>>]
         ELSE IF ~({"path", "data"} \subseteq message.data.keys)
         THEN [exc |-> "KeyError", event |-> <<>>]
         ELSE [exc |-> "none",
               event |-> <<RtdbEvent(message.event, message.data.path, message.data.data)>>]
    ELSE [exc |-> "UnboundLocalError", event |-> <<>>]

(***************************************************************************)
(* The streams a server sends: up to MaxBlocks blocks, each a run of field *)
(* lines closed by a blank line.                                           *)
(***************************************************************************)
\* A field line, without and with the optional space after the colon.
Field(k, v) == <<k, COLON, v, LF>>

FieldSp(k, v) == <<k, COLON, SP, v, LF>>

Block(name) ==
    CASE name = "put_obj" -> FieldSp("event", "put") \o Field("data", "{path:/a,data:1}") \o <<LF>>
      [] name = "patch_inner_null" -> Field("event", "patch") \o Field("data", "{path:/b,data:null}") \o <<LF>>
      [] name = "keepalive_null" -> FieldSp("event", "keep-alive") \o Field("data", "null") \o <<LF>>
      [] name = "keepalive_obj" -> Field("event", "keep-alive") \o Field("data", "{path:/a,data:1}") \o <<LF>>
      [] name = "bogus" -> Field("event", "bogus") \o Field("data", "null") \o <<LF>>
      [] name = "put_bare" -> Field("event", "put") \o <<LF>>
      [] name = "put_int" -> Field("event", "put") \o Field("data", "1") \o <<LF>>
      [] name = "put_accent" -> Field("event", "put") \o <<"origin", COLON, LEAD, CONT, LF>> \o <<LF>>
      [] name = "origin_url" ->
             <<"event", SP, COLON, SP, "put", SP, LF>>
                 \o <<"origin", COLON, SP, "http", COLON, "//x", SP, LF>> \o <<LF>>
      [] name = "blank" -> <<LF>>
      [] name = "no_event" -> Field("data", "1") \o <<LF>>
      [] name = "with_id" -> Field("event", "put") \o Field("id", "7") \o <<LF>>
      [] name = "comment" -> <<COLON, "ping", LF>> \o <<LF>>
      [] name = "no_colon" -> Field("event", "put") \o <<"garbage", LF>> \o <<LF>>
      [] name = "bad_json" -> Field("event", "put") \o Field("data", "{oops") \o <<LF>>

BlockNames == {"put_obj", "patch_inner_null", "keepalive_null", "keepalive_obj", "bogus",
               "put_bare", "put_int"}

\* The lines of a block, as the framer sees them when the block comes alone.
BlockLines(name) == split_lf(rstrip_lf(utf8_decode(Block(name))))

\* The message of a block taken alone.
BlockMessage(name) == emit_message(BlockLines(name)).message[1]

RECURSIVE Concat(_)
Concat(names) == IF names = <<>> THEN <<>> ELSE Block(names[1]) \o Concat(Tail(names))

Streams == UNION {[1..n -> BlockNames] : n \in 1..MaxBlocks}

(***************************************************************************)
(* RtdbNode: a node is [path, qp]; qp is 0 for query_params None, or the    *)
(* place of its dictionary in the heap.                                    *)
(***************************************************************************)
SLASH == "/"
DQ == "\""

\* Values of a parameter map: a str (its text), an int, or no entry under the key.
PyStr(s) == [type |-> "str", s |-> s, n |-> 0]

PyInteger(n) == [type |-> "int", s |-> <<>>, n |-> n]

Absent == [type |-> "absent", s |-> <<>>, n |-> 0]

\* str(n) of a small int, and f'"{text}"'.
str(n) == <<ToString(n)>>

quoted(text) == <<DQ>> \o text \o <<DQ>>

ORDER_BY_KEY == <<"$key">>
ORDER_BY_VALUE == <<"$value">>
ORDER_BY_PRIORITY == <<"$priority">>
EXPORT_FORMAT == <<"export">>

SizeLimit == {<<"tiny">>, <<"unlimited">>}

\* sep.join(parts)
RECURSIVE join(_, _)
join(sep, parts) ==
    IF parts = <<>> THEN <<>>
    ELSE IF Len(parts) = 1 THEN parts[1]
    ELSE parts[1] \o <<sep>> \o join(sep, Tail(parts))

ParamKeys == {"orderBy", "limitToFirst", "limitToLast", "startAt", "endAt", "equalTo",
              "shallow", "format", "timeout", "writeSizeLimit"}

\* The keys of the dictionaries of the model: the builders' keywords and "auth".
DictKeys == ParamKeys \cup {"auth"}

\* The dictionary {}.
EmptyParams == [k \in DictKeys |-> Absent]

\* {**a, **b}
dict_merge(a, b) == [k \in DictKeys |-> IF b[k] # Absent THEN b[k] ELSE a[k]]

RtdbNode(path, query_params) == [path |-> path, query_params |-> query_params]

\* The node that Rtdb.__aenter__ returns: path "", query_params None.
RootNode ==
    [path |-> <<>>, query_params |-> 0, parent |-> 0, segs |-> <<>>, by |-> "root",
     arg |-> Absent]

\* child() handing the receiver's query_params on to the new node.
child_keep_params(self, path) ==
    RtdbNode(IF self.path # <<>> THEN join(SLASH, <<self.path, join(SLASH, path)>>)
             ELSE join(SLASH, path),
             self.query_params)

\* child() joining the receiver's path and the added path whatever the receiver's path is.
child_always_join(self, path) ==
    RtdbNode(join(SLASH, <<self.path, join(SLASH, path)>>), 0)

child(self, path) ==
    LET added_path == join(SLASH, path)
        new_path == IF self.path # <<>> THEN join(SLASH, <<self.path, added_path>>)
                    ELSE added_path
    IN RtdbNode(new_path, 0)

truediv(self, path) == child(self, <<path>>)

\* self.query_params or {}
query_params_or_empty(heap, self) ==
    IF self.query_params = 0 THEN EmptyParams ELSE heap[self.query_params]

\* _copy_with_params updating the receiver's own dictionary and handing it on.
copy_with_params_in_place(heap, self, key, value) ==
    IF self.query_params = 0
    THEN [node |-> RtdbNode(self.path, Len(heap) + 1),
          heap |-> Append(heap, [EmptyParams EXCEPT ![key] = value])]
    ELSE [node |-> RtdbNode(self.path, self.query_params),
          heap |-> [heap EXCEPT ![self.query_params][key] = value]]

\* _copy_with_params starting from an empty dictionary.
copy_with_params_fresh(heap, self, key, value) ==
    [node |-> RtdbNode(self.path, Len(heap) + 1),
     heap |-> Append(heap, [EmptyParams EXCEPT ![key] = value])]

\* _copy_with_params(**{key: value}) on the heap of dictionaries: the new node and
\* the heap with the new node's dictionary, a copy of the receiver's entries updated
\* with the keyword.
copy_with_params(heap, self, key, value) ==
    LET query_params == [query_params_or_empty(heap, self) EXCEPT ![key] = value]
    IN [node |-> RtdbNode(self.path, Len(heap) + 1), heap |-> Append(heap, query_params)]

order_by(heap, self, child_location) ==
    copy_with_params(heap, self, "orderBy", PyStr(quoted(child_location)))

order_by_key(heap, self) == order_by(heap, self, ORDER_BY_KEY)

order_by_value(heap, self) == order_by(heap, self, ORDER_BY_VALUE)

order_by_priority(heap, self) == order_by(heap, self, ORDER_BY_PRIORITY)

limit_to_first(heap, self, limit) ==
    copy_with_params(heap, self, "limitToFirst", PyStr(str(limit)))

limit_to_last(heap, self, limit) ==
    copy_with_params(heap, self, "limitToLast", PyStr(str(limit)))

\* f'"{value}"' if isinstance(value, str) else value
quoted_if_str(value) == IF value.type = "str" THEN PyStr(quoted(value.s)) ELSE value

start_at(heap, self, value) == copy_with_params(heap, self, "startAt", quoted_if_str(value))

end_at(heap, self, value) == copy_with_params(heap, self, "endAt", quoted_if_str(value))

equal_to(heap, self, value) == copy_with_params(heap, self, "equalTo", quoted_if_str(value))

shallow(heap, self) == copy_with_params(heap, self, "shallow", PyStr(<<"true">>))

export_format(heap, self) == copy_with_params(heap, self, "format", PyStr(EXPORT_FORMAT))

\* timeout(timedelta(seconds=n)): f"{timeout.total_seconds()}s", the float n as "n.0".
timeout(heap, self, seconds) ==
    LET timeout_str == str(seconds) \o <<".0", "s">>
    IN copy_with_params(heap, self, "timeout", PyStr(timeout_str))

write_size_limit(heap, self, limit) ==
    copy_with_params(heap, self, "writeSizeLimit", PyStr(limit))

(***************************************************************************)
(* Rtdb, and the request that RtdbNode.events makes through SseClient.open. *)
(* A URL is its origin (one token) followed by the tokens of its path.     *)
(***************************************************************************)
\* An Rtdb after __aenter__: slash says whether database_url ends with "/"; accept
\* is an Accept header put into session.headers by the user (None: there is none).
Rtdb(origin, slash, id_token, access_token, accept) ==
    [database_url |-> IF slash THEN <<origin, SLASH>> ELSE <<origin>>,
     id_token |-> id_token, access_token |-> access_token, accept |-> accept]

\* Python's truth value of an Optional[str].
truthy(v) == v \notin {NoneV, ""}

\* The headers of the session that Rtdb.__aenter__ builds, as dict(session.headers).
session_headers(r) ==
    LET names == {"Content-Type"}
                   \cup (IF truthy(r.access_token) THEN {"Authorization"} ELSE {})
                   \cup (IF r.accept # NoneV THEN {"Accept"} ELSE {})
    IN [k \in names |->
           CASE k = "Content-Type" -> <<"application/json">>
             [] k = "Authorization" -> <<"Bearer ", r.access_token>>
             [] k = "Accept" -> <<r.accept>>]

auth_params(r) ==
    IF truthy(r.id_token) THEN [EmptyParams EXCEPT !["auth"] = PyStr(<<r.id_token>>)]
    ELSE EmptyParams

params(heap, r, self) == dict_merge(query_params_or_empty(heap, self), auth_params(r))

json_url(self) == <<SLASH>> \o self.path \o <<".json">>

\* urljoin(base, url) for a url that starts with "/": the path of base is replaced.
urljoin(base, url) == <<base[1]>> \o url

\* The headers of the session of open() with the caller's headers laid over Accept.
open_headers_caller_last(headers) ==
    [k \in DOMAIN headers \cup {"Accept"} |->
        IF k \in DOMAIN headers THEN headers[k] ELSE <<"text/event-stream">>]

\* {**self.headers, "Accept": "text/event-stream"}
open_headers(headers) ==
    [k \in DOMAIN headers \cup {"Accept"} |->
        IF k = "Accept" THEN <<"text/event-stream">> ELSE headers[k]]

\* The GET of SseClient.open for the client that self.events() builds; i is
\* the place of self among the nodes.
events_request(r, heap, self, i) ==
    [method |-> "GET",
     url |-> urljoin(r.database_url, json_url(self)),
     headers |-> open_headers(session_headers(r)),
     params |-> params(heap, r, self),
     node |-> i]

NoRequest ==
    [method |-> "none", url |-> <<>>, headers |-> [k \in {} |-> <<>>], params |-> EmptyParams,
     node |-> 0]

Rtdbs ==
    {Rtdb("http://127.0.0.1:9051", FALSE, NoneV, NoneV, NoneV),
     Rtdb("https://db.example", TRUE, "", "acc", NoneV),
     Rtdb("https://db.example", FALSE, "tok", NoneV, "application/json"),
     Rtdb("https://db.example", TRUE, "tok", "acc", NoneV)}

\* The arguments the programs of the model pass to the builders.
Segments == {<<"a">>, <<"b">>}

ChildPaths == UNION {[1..n -> Segments] : n \in 1..MaxSegs}

Locations == {<<"k">>}

Limits == {1, 2}

FilterValues == {PyStr(<<"a">>), PyInteger(1)}

Timeouts == {5}

(***************************************************************************)
(* auth/auth.py: snakeify_dict_keys.  A str is the sequence of its         *)
(* characters.  A JSON value is [type, s, n, items]: items holds the       *)
(* entries [key, value] of a dict in insertion order, or the elements of a *)
(* list (each under the key <<>>).                                         *)
(***************************************************************************)
JStr(s) == [type |-> "str", s |-> s, n |-> 0, items |-> <<>>]

JNum(n) == [type |-> "int", s |-> <<>>, n |-> n, items |-> <<>>]

JList(values) ==
    [type |-> "list", s |-> <<>>, n |-> 0,
     items |-> [i \in 1..Len(values) |-> [key |-> <<>>, value |-> values[i]]]]

JDict(items) == [type |-> "dict", s |-> <<>>, n |-> 0, items |-> items]

Item(k, v) == [key |-> k, value |-> v]

\* str.lower() of one character.
lowercase(c) ==
    CASE c = "A" -> "a"
      [] c = "B" -> "b"
      [] c = "C" -> "c"
      [] c = "N" -> "n"
      [] OTHER -> c

IsUpper(c) == c \in {"A", "B", "C", "N"}

\* re.sub(r"[\-\.\s]", "_", string)
RECURSIVE separators_to_underscore(_)
separators_to_underscore(string) ==
    IF string = <<>> THEN <<>>
    ELSE <<IF string[1] \in {"-", ".", " "} THEN "_" ELSE string[1]>>
             \o separators_to_underscore(Tail(string))

\* re.sub(r"[A-Z]", lambda matched: "_" + lowercase(matched.group(0)), string)
RECURSIVE underscore_capitals(_)
underscore_capitals(string) ==
    IF string = <<>> THEN <<>>
    ELSE (IF IsUpper(string[1]) THEN <<"_", lowercase(string[1])>> ELSE <<string[1]>>)
             \o underscore_capitals(Tail(string))

\* stringcase.snakecase
snakecase(string) ==
    LET str0 == separators_to_underscore(string) IN
    IF str0 = <<>> THEN str0
    ELSE <<lowercase(str0[1])>> \o underscore_capitals(Tail(str0))

\* d[key] = value on the entries of a dict: a key that is there keeps its place.
dict_set(items, key, value) ==
    IF \E i \in DOMAIN items : items[i].key = key
    THEN [i \in DOMAIN items |-> IF items[i].key = key THEN Item(key, value) ELSE items[i]]
    ELSE Append(items, Item(key, value))

\* snakeify_value that returns every value as it is.
snakeify_value_flat(val) == val

RECURSIVE snakeify_dict_keys(_)
RECURSIVE snakeify_value(_)
RECURSIVE snakeify_items(_, _, _)

\* The dict comprehension of snakeify_dict_keys over items[i..], with acc built so far.
snakeify_items(items, i, acc) ==
    IF i > Len(items) THEN acc
    ELSE snakeify_items(items, i + 1,
             dict_set(acc, snakecase(items[i].key), snakeify_value(items[i].value)))

snakeify_value(val) ==
    IF val.type = "dict" THEN snakeify_dict_keys(val)
    ELSE IF val.type = "list"
    THEN [val EXCEPT !.items = [i \in DOMAIN val.items |->
                                   Item(<<>>, snakeify_value(val.items[i].value))]]
    ELSE val

snakeify_dict_keys(data) == JDict(snakeify_items(data.items, 1, <<>>))

\* The JSON the model passes in: keys plain, camelCase, capitalised, snake_case and
\* dashed; values nested up to depth d.
JsonKeys == {<<"a", "a">>, <<"c", "C">>, <<"N", "b">>, <<"s", "_", "k">>, <<"a", "-", "b">>}

JsonScalars == {JStr(<<"b", "C">>), JNum(1)}

RECURSIVE JsonValues(_)
JsonValues(d) ==
    IF d = 0 THEN JsonScalars
    ELSE LET sub == JsonValues(d - 1) IN
         sub \cup {JList(<<v, JStr(<<"b", "C">>)>>) : v \in sub}
             \cup {JDict(<<Item(k, v)>>) : k \in JsonKeys, v \in sub}
             \cup {JDict(<<Item(<<"c", "C">>, v), Item(<<"a", "a">>, JNum(1))>>) : v \in sub}

NoResult == [type |-> "pending", s |-> <<>>, n |-> 0, items |-> <<>>]

(***************************************************************************)
(* exceptions.py: get_auth_request_exception.  A class is its name.  A     *)
(* body is [type, error]; error is what body.get("error") gives, itself    *)
(* [type, message]; message is what err.get("message") gives, [type, s].   *)
(***************************************************************************)
AUTH_REQUEST_EXCEPTION_MAPPING ==
    <<
      [key |-> <<"I", "N", "V", "A", "L", "I", "D", "_", "C", "U", "S", "T", "O", "M", "_", "T", "O", "K", "E", "N">>,
       exception |-> "InvalidCustomToken"],
      [key |-> <<"C", "R", "E", "D", "E", "N", "T", "I", "A", "L", "_", "M", "I", "S", "M", "A", "T", "C", "H">>,
       exception |-> "CredentialMismatch"],
      [key |-> <<"T", "O", "K", "E", "N", "_", "E", "X", "P", "I", "R", "E", "D">>,
       exception |-> "TokenExpired"],
      [key |-> <<"U", "S", "E", "R", "_", "D", "I", "S", "A", "B", "L", "E", "D">>,
       exception |-> "UserDisabled"],
      [key |-> <<"U", "S", "E", "R", "_", "N", "O", "T", "_", "F", "O", "U", "N", "D">>,
       exception |-> "UserNotFound"],
      [key |-> <<"I", "N", "V", "A", "L", "I", "D", "_", "R", "E", "F", "R", "E", "S", "H", "_", "T", "O", "K", "E", "N">>,
       exception |-> "InvalidRefreshToken"],
      [key |-> <<"I", "N", "V", "A", "L", "I", "D", "_", "G", "R", "A", "N", "T", "_", "T", "Y", "P", "E">>,
       exception |-> "InvalidGrantType"],
      [key |-> <<"M", "I", "S", "S", "I", "N", "G", "_", "R", "E", "F", "R", "E", "S", "H", "_", "T", "O", "K", "E", "N">>,
       exception |-> "MissingRefreshToken"],
      [key |-> <<"E", "M", "A", "I", "L", "_", "E", "X", "I", "S", "T", "S">>,
       exception |-> "EmailExists"],
      [key |-> <<"O", "P", "E", "R", "A", "T", "I", "O", "N", "_", "N", "O", "T", "_", "A", "L", "L", "O", "W", "E", "D">>,
       exception |-> "OperationNotAllowed"],
      [key |-> <<"T", "O", "O", "_", "M", "A", "N", "Y", "_", "A", "T", "T", "E", "M", "P", "T", "S", "_", "T", "R", "Y", "_", "L", "A", "T", "E", "R">>,
       exception |-> "TooManyAttemptsTryLater"],
      [key |-> <<"E", "M", "A", "I", "L", "_", "N", "O", "T", "_", "F", "O", "U", "N", "D">>,
       exception |-> "EmailNotFound"],
      [key |-> <<"I", "N", "V", "A", "L", "I", "D", "_", "P", "A", "S", "S", "W", "O", "R", "D">>,
       exception |-> "InvalidPassword"],
      [key |-> <<"I", "N", "V", "A", "L", "I", "D", "_", "I", "D", "P", "_", "R", "E", "S", "P", "O", "N", "S", "E">>,
       exception |-> "InvalidIdpResponse"],
      [key |-> <<"I", "N", "V", "A", "L", "I", "D", "_", "E", "M", "A", "I", "L">>,
       exception |-> "InvalidEmail"],
      [key |-> <<"E", "X", "P", "I", "R", "E", "D", "_", "O", "O", "B", "_", "C", "O", "D", "E">>,
       exception |-> "ExpiredOobCode"],
      [key |-> <<"I", "N", "V", "A", "L", "I", "D", "_", "O", "O", "B", "_", "C", "O", "D", "E">>,
       exception |-> "InvalidOobCode"],
      [key |-> <<"I", "N", "V", "A", "L", "I", "D", "_", "I", "D", "_", "T", "O", "K", "E", "N">>,
       exception |-> "InvalidIdToken"],
      [key |-> <<"W", "E", "A", "K", "_", "P", "A", "S", "S", "W", "O", "R", "D">>,
       exception |-> "WeakPassword"],
      [key |-> <<"C", "R", "E", "D", "E", "N", "T", "I", "A", "L", "_", "T", "O", "O", "_", "O", "L", "D", "_", "L", "O", "G", "I", "N", "_", "A", "G", "A", "I", "N">>,
       exception |-> "CredentialTooOldLoginAgain"],
      [key |-> <<"F", "E", "D", "E", "R", "A", "T", "E", "D", "_", "U", "S", "E", "R", "_", "I", "D", "_", "A", "L", "R", "E", "A", "D", "Y", "_", "L", "I", "N", "K", "E", "D">>,
       exception |-> "FederatedUserIdAlreadyLinked"]
    >>

\* str.startswith as equality of the two strings.
startswith_whole(string, prefix) == string = prefix

\* string.startswith(prefix)
startswith(string, prefix) ==
    Len(prefix) <= Len(string) /\ SubSeq(string, 1, Len(prefix)) = prefix

\* The for loop over AUTH_REQUEST_EXCEPTION_MAPPING.items() from entry i on, with
\* its else clause.
RECURSIVE first_exception(_, _)
first_exception(message, i) ==
    IF i > Len(AUTH_REQUEST_EXCEPTION_MAPPING) THEN "AuthRequestException"
    ELSE IF startswith(message, AUTH_REQUEST_EXCEPTION_MAPPING[i].key)
    THEN AUTH_REQUEST_EXCEPTION_MAPPING[i].exception
    ELSE first_exception(message, i + 1)

get_auth_request_exception(body) ==
    IF body.type # "dict" THEN "AuthRequestException"
    ELSE LET err == body.error IN
         IF err.type # "dict" THEN "AuthRequestException"
         ELSE LET message == err.message IN
              IF message.type # "str" THEN "AuthRequestException"
              ELSE first_exception(message.s, 1)

\* Bodies: a value that is no dict; a dict whose "error" is missing (None) or no dict;
\* an error whose "message" is missing (None) or no str; an error with a message.
NoMessage(type) == [type |-> type, s |-> <<>>]

NoError(type) == [type |-> type, message |-> NoMessage("NoneType")]

Body(type, error) == [type |-> type, error |-> error]

ErrorBody(message) == Body("dict", [type |-> "dict", message |-> [type |-> "str", s |-> message]])

\* The messages of the model: each key alone, each key followed by the detail that
\* the server appends, each key short of its last character, and two other texts.
Messages ==
    {<<>>, <<"O", "T", "H", "E", "R">>}
        \cup UNION {{AUTH_REQUEST_EXCEPTION_MAPPING[i].key,
                     AUTH_REQUEST_EXCEPTION_MAPPING[i].key \o <<" ", ":", " ", "x">>,
                     SubSeq(AUTH_REQUEST_EXCEPTION_MAPPING[i].key, 1,
                            Len(AUTH_REQUEST_EXCEPTION_MAPPING[i].key) - 1)} :
                    i \in DOMAIN AUTH_REQUEST_EXCEPTION_MAPPING}

Bodies ==
    {Body(t, NoError("NoneType")) : t \in {"NoneType", "str", "list", "dict"}}
        \cup {Body("dict", NoError(t)) : t \in {"str", "list"}}
        \cup {Body("dict", [type |-> "dict", message |-> NoMessage(t)]) :
                 t \in {"NoneType", "int", "dict"}}
        \cup {ErrorBody(m) : m \in Messages}

(***************************************************************************)
(* State.                                                                  *)
(***************************************************************************)
VARIABLES
    stream,          \* the blocks the server sends on this connection (fixed)
    wire,            \* the bytes the server has still to deliver
    on_open,         \* SseClient.on_open is supplied
    on_error,        \* SseClient.on_error is supplied
    main,            \* the caller: "init", "opened", "failed" (open raised), "closed"
    get_outcome,     \* history: how session.get and raise_for_status ended in open()
    raised,          \* the exception open() raised to the caller
    response,        \* self.response: "none", "open", "closed"
    task,            \* self.task (listen_to_response): "none", "scheduled", "waiting",
                     \*   "cancelling", "cancelled", "done", "failed"
    line_bytes,      \* listen_to_response's line_bytes
    message_lines,   \* listen_to_response's message_lines
    ready,           \* the event loop's FIFO of tasks made by loop.create_task
    events,          \* the asyncio.Queue of RtdbNode.events
    got,             \* what the consumer has taken from the queue, in order
    emitted,         \* history: the messages handed to on_message tasks, in order
    handled,         \* history: every run of on_message: [message, exc, closed]
    on_open_calls,   \* history: the number of runs of on_open
    on_error_calls,  \* history: the number of runs of on_error
    cut,             \* the number of bytes of the last block the server never sends
    utf8_split,      \* history: a chunk ended inside a multi-byte UTF-8 sequence
    get_requests,    \* history: the number of GET requests issued
    close_calls,     \* history: the number of calls of SseClient.close
    body_exc,        \* history: the exception the body of the scope raised
    propagated,      \* the exception that left the scope after __aexit__
    nodes,           \* the RtdbNode objects built so far
    dicts,           \* the heap of query_params dictionaries
    rtdb,            \* the Rtdb connection object (fixed after construction)
    request,         \* the GET that open() issued: [method, url, headers, params, node]
    session,         \* the aiohttp.ClientSession made by open(): "none", "open", "closed"
    subs,            \* two subscriptions side by side: their clients and queues
    argument,        \* the argument of a call of a pure function
    result,          \* what the call returned
    connection_task, \* sse/SseClient.py: self._connection_task
    byte_queue,      \* sse/SseClient.py: the queue between its two tasks
    opened,          \* sse/SseClient.py: open()'s flag opened
    errored          \* sse/SseClient.py: open()'s flag errored

vars == <<stream, wire, on_open, on_error, main, get_outcome, raised, response, task, line_bytes,
          message_lines, ready, events, got, emitted, handled, on_open_calls,
          on_error_calls, cut, utf8_split, get_requests, close_calls, body_exc, propagated,
          nodes, dicts, rtdb, request, session, subs, argument, result, connection_task,
          byte_queue, opened, errored>>

exitvars == <<close_calls, body_exc, propagated>>

reqvars == <<request, session>>

\* What the subscription of sse/sse_client.py and the node builders never touch.
sidevars == <<rtdb, subs, argument, result, connection_task, byte_queue, opened, errored>>

nodevars == <<nodes, dicts>>

\* The client is built without callbacks other than on_message (as RtdbNode.events
\* builds it) or with both on_open and on_error.
Callbacks == {<<FALSE, FALSE>>, <<TRUE, TRUE>>}

GetOutcomes == {"ok", "ClientConnectionError", "OtherError", "bad_status"}

\* The client as constructed, before open(), and the node of the database's root.
Idle ==
    /\ main = "init"
    /\ get_outcome = "none"
    /\ raised = "none"
    /\ response = "none"
    /\ task = "none"
    /\ line_bytes = <<>>
    /\ message_lines = <<>>
    /\ ready = <<>>
    /\ events = <<>>
    /\ got = <<>>
    /\ emitted = <<>>
    /\ handled = <<>>
    /\ on_open_calls = 0
    /\ on_error_calls = 0
    /\ utf8_split = FALSE
    /\ get_requests = 0
    /\ close_calls = 0
    /\ body_exc = "none"
    /\ propagated = "none"
    /\ nodes = <<RootNode>>
    /\ dicts = <<>>
    /\ request = NoRequest
    /\ session = "none"
    /\ subs = <<>>
    /\ connection_task = "none"
    /\ byte_queue = <<>>
    /\ opened = FALSE
    /\ errored = FALSE

\* ... with no call of a pure function under way.
Constructed ==
    /\ Idle
    /\ argument = "none"
    /\ result = "none"

Init ==
    /\ rtdb = Rtdb("http://127.0.0.1:9051", FALSE, NoneV, NoneV, NoneV)
    /\ stream \in Streams
    /\ cut = 0
    /\ wire = Concat(stream)
    /\ \E c \in Callbacks : on_open = c[1] /\ on_error = c[2]
    /\ Constructed

\* loop.create_task(coro): the task's first step joins the loop's FIFO of ready callbacks.
create_task(q, t) == Append(q, t)

\* A queue that hands out the newest event first.
queue_put_lifo(q, e) == <<e>> \o q

\* events.put(event) on the unbounded asyncio.Queue.
queue_put(q, e) == Append(q, e)

(***************************************************************************)
(* SseClient.open, called by the caller (through __aenter__), with the     *)
(* outcome of session.get and raise_for_status.                            *)
(***************************************************************************)
\* open() with the raise left out after a failure: it goes on to create the read task.
OpenFailure_no_raise(exc, resp) ==
    /\ ready' = IF on_error THEN create_task(ready, [kind |-> "on_error", message |-> <<>>])
                ELSE ready
    /\ raised' = raised
    /\ response' = resp
    /\ main' = "opened"
    /\ task' = "scheduled"

OpenFailure(exc, resp) ==
    /\ ready' = IF on_error THEN create_task(ready, [kind |-> "on_error", message |-> <<>>])
                ELSE ready
    /\ raised' = exc
    /\ response' = resp
    /\ main' = "failed"
    /\ task' = task

Open(outcome) ==
    /\ main = "init"
    /\ get_outcome' = outcome
    /\ get_requests' = get_requests + 1
    /\ session' = "open"
    /\ \E i \in DOMAIN nodes : request' = events_request(rtdb, dicts, nodes[i], i)
    /\ CASE outcome = "ClientConnectionError" -> OpenFailure("RtdbEventStreamException", response)
         [] outcome = "OtherError" ->
                /\ raised' = "OtherError"
                /\ main' = "failed"
                /\ UNCHANGED <<ready, response, task>>
         [] outcome = "bad_status" -> OpenFailure("RtdbEventStreamException", "open")
         [] outcome = "ok" ->
                /\ response' = "open"
                /\ task' = "scheduled"
                /\ main' = "opened"
                /\ UNCHANGED <<ready, raised>>
    /\ UNCHANGED <<sidevars, nodevars, cut, utf8_split, exitvars, stream, wire, on_open, on_error, line_bytes, message_lines, events, got,
                   emitted, handled, on_open_calls, on_error_calls>>

\* SseClient.close: self.response.close(); self.task.cancel().
task_cancel(t) == IF t \in {"scheduled", "waiting"} THEN "cancelling" ELSE t

\* close() awaiting the task it has cancelled: the task's own exception, or the wait
\* for a task that is over and never becomes "cancelled", ends the call.
close_result_await_task(t) ==
    IF t = "failed" THEN "raised" ELSE IF t = "done" THEN "blocked" ELSE "returned"

\* How close() ends for a read task in state t: it makes two calls that neither raise
\* nor wait (no await of the task), so it returns.
close_result(t) == "returned"

\* __aexit__ returning a true value: the exception of the body is suppressed.
aexit_swallow(exc) == "none"

\* SseClient.__aexit__ returns None, and RtdbNode.events has no except clause: the
\* exception exc of the body ("none": the body ended normally) leaves the scope.
aexit(exc) == exc

\* The scope of "async with node.events()" (or "async with SseClient(...)") is left
\* with the body's exception exc: __aexit__ calls close().
ScopeExit(exc) ==
    /\ main = "opened"
    /\ response' = "closed"
    /\ task' = task_cancel(task)
    /\ close_calls' = close_calls + 1
    /\ body_exc' = exc
    /\ LET r == close_result(task) IN
       /\ main' = CASE r = "returned" -> "closed"
                    [] r = "raised" -> "close_raised"
                    [] r = "blocked" -> "closing"
       /\ propagated' = IF r = "returned" THEN aexit(exc) ELSE "none"
    /\ UNCHANGED <<sidevars, reqvars, nodevars, cut, utf8_split, get_requests, stream, wire, on_open, on_error,
                   get_outcome, raised, line_bytes, message_lines, ready, events, got, emitted,
                   handled, on_open_calls, on_error_calls>>

\* The body ends normally.
Close == ScopeExit("none")

\* The body raises.
CloseOnRaise == ScopeExit("ConsumerError")

(***************************************************************************)
(* The read task listen_to_response.                                       *)
(***************************************************************************)
\* The first step, up to the first suspension of the async for.
TaskStart ==
    /\ task = "scheduled"
    /\ task' = "waiting"
    /\ ready' = IF on_open THEN create_task(ready, [kind |-> "on_open", message |-> <<>>])
                ELSE ready
    /\ UNCHANGED <<sidevars, reqvars, nodevars, cut, utf8_split, get_requests, exitvars, stream, wire, on_open, on_error, main, get_outcome, raised, response, line_bytes,
                   message_lines, events, got, emitted, handled, on_open_calls,
                   on_error_calls>>

\* One iteration of the async for, with the next k bytes of the stream as the chunk.
ReadChunk(k) ==
    /\ task = "waiting"
    /\ LET r == FrameStep(line_bytes, message_lines, SubSeq(wire, 1, k))
           e == emit_message(r.lines)
       IN /\ wire' = SubSeq(wire, k + 1, Len(wire))
          /\ utf8_split' = (utf8_split \/ (k > 0 /\ ~utf8_ok(line_bytes \o SubSeq(wire, 1, k))))
          /\ IF r.emit /\ e.exc # "none"
             THEN /\ task' = "failed"
                  /\ UNCHANGED <<line_bytes, message_lines, ready, emitted>>
             ELSE /\ line_bytes' = r.line_bytes
                  /\ message_lines' = r.message_lines
                  /\ task' = task
                  /\ IF r.emit
                     THEN /\ ready' = create_task(ready, [kind |-> "on_message", message |-> e.message])
                          /\ emitted' = Append(emitted, e.message[1])
                     ELSE UNCHANGED <<ready, emitted>>
    /\ UNCHANGED <<sidevars, reqvars, nodevars, cut, get_requests, exitvars, stream, on_open, on_error, main, get_outcome, raised, response, events, got, handled,
                   on_open_calls, on_error_calls>>

\* A read loop that, when the stream ends, hands the lines it still holds to
\* emit_message.
ServerEnd_flush ==
    /\ task = "waiting"
    /\ wire = <<>>
    /\ LET e == emit_message(message_lines) IN
       IF message_lines = <<>> THEN task' = "done" /\ UNCHANGED <<ready, emitted>>
       ELSE IF e.exc # "none" THEN task' = "failed" /\ UNCHANGED <<ready, emitted>>
       ELSE /\ task' = "done"
            /\ ready' = create_task(ready, [kind |-> "on_message", message |-> e.message])
            /\ emitted' = Append(emitted, e.message[1])
    /\ UNCHANGED <<sidevars, reqvars, nodevars, cut, utf8_split, get_requests, exitvars, stream, wire, on_open,
                   on_error, main, get_outcome, raised, response, line_bytes, message_lines,
                   events, got, handled, on_open_calls, on_error_calls>>

\* The server ends the stream after its last byte: the async for is exhausted.
ServerEnd ==
    /\ task = "waiting"
    /\ wire = <<>>
    /\ task' = "done"
    /\ UNCHANGED <<sidevars, reqvars, nodevars, cut, utf8_split, get_requests, exitvars, stream, wire, on_open, on_error, main, get_outcome, raised, response, line_bytes,
                   message_lines, ready, events, got, emitted, handled, on_open_calls,
                   on_error_calls>>

\* A read loop that answers a broken connection with a new GET and goes on reading.
StreamError_reconnect ==
    /\ task = "waiting"
    /\ get_requests < 2
    /\ get_requests' = get_requests + 1
    /\ UNCHANGED <<sidevars, reqvars, nodevars, cut, utf8_split, exitvars, stream, wire, on_open, on_error, main,
                   get_outcome, raised, response, task, line_bytes, message_lines, ready,
                   events, got, emitted, handled, on_open_calls, on_error_calls>>

\* The connection breaks: the async for raises (ClientPayloadError, ConnectionError)
\* and the exception ends the task; the bytes not yet delivered are lost.
StreamError ==
    /\ task = "waiting"
    /\ task' = "failed"
    /\ UNCHANGED <<sidevars, reqvars, nodevars, cut, utf8_split, get_requests, exitvars, stream, wire, on_open,
                   on_error, main, get_outcome, raised, response, line_bytes, message_lines,
                   ready, events, got, emitted, handled, on_open_calls, on_error_calls>>

\* The CancelledError of task.cancel() reaches the task at its next step.
TaskCancelled ==
    /\ task = "cancelling"
    /\ task' = "cancelled"
    /\ UNCHANGED <<sidevars, reqvars, nodevars, cut, utf8_split, get_requests, exitvars, stream, wire, on_open, on_error, main, get_outcome, raised, response, line_bytes,
                   message_lines, ready, events, got, emitted, handled, on_open_calls,
                   on_error_calls>>

(***************************************************************************)
(* The event loop runs the oldest ready task: on_message (rtdb.py), on_open *)
(* or on_error.                                                            *)
(***************************************************************************)
RunOnMessage ==
    /\ ready # <<>>
    /\ Head(ready).kind = "on_message"
    /\ LET m == Head(ready).message[1]
           r == on_message(m)
       IN /\ handled' = Append(handled, [message |-> m, exc |-> r.exc, closed |-> main = "closed"])
          /\ events' = IF r.exc = "none" THEN queue_put(events, r.event[1]) ELSE events
    /\ ready' = Tail(ready)
    /\ UNCHANGED <<sidevars, reqvars, nodevars, cut, utf8_split, get_requests, exitvars, stream, wire, on_open, on_error, main, get_outcome, raised, response, task, line_bytes,
                   message_lines, got, emitted, on_open_calls, on_error_calls>>

RunOnOpen ==
    /\ ready # <<>>
    /\ Head(ready).kind = "on_open"
    /\ on_open_calls' = on_open_calls + 1
    /\ ready' = Tail(ready)
    /\ UNCHANGED <<sidevars, reqvars, nodevars, cut, utf8_split, get_requests, exitvars, stream, wire, on_open, on_error, main, get_outcome, raised, response, task, line_bytes,
                   message_lines, events, got, emitted, handled, on_error_calls>>

RunOnError ==
    /\ ready # <<>>
    /\ Head(ready).kind = "on_error"
    /\ on_error_calls' = on_error_calls + 1
    /\ ready' = Tail(ready)
    /\ UNCHANGED <<sidevars, reqvars, nodevars, cut, utf8_split, get_requests, exitvars, stream, wire, on_open, on_error, main, get_outcome, raised, response, task, line_bytes,
                   message_lines, events, got, emitted, handled, on_open_calls>>

\* The consumer takes the oldest event from the queue (events.get()).
Get ==
    /\ main \in {"opened", "closed"}
    /\ events # <<>>
    /\ got' = Append(got, Head(events))
    /\ events' = Tail(events)
    /\ UNCHANGED <<sidevars, reqvars, nodevars, cut, utf8_split, get_requests, exitvars, stream, wire, on_open, on_error, main, get_outcome, raised, response, task, line_bytes,
                   message_lines, ready, emitted, handled, on_open_calls, on_error_calls>>

(***************************************************************************)
(* A program building nodes: each step applies one builder to a node it    *)
(* holds and keeps the result.  Beside the node itself, nodes[i] records   *)
(* the call that made it: the receiver (parent), the builder (by), its     *)
(* argument (arg), and every segment given on the way from the root (segs).*)
(***************************************************************************)
ssevars ==
    <<sidevars, reqvars, cut, utf8_split, get_requests, exitvars, stream, wire, on_open, on_error, main,
      get_outcome, raised, response, task, line_bytes, message_lines, ready, events, got,
      emitted, handled, on_open_calls, on_error_calls>>

Made(node, i, path, by, arg) ==
    [path |-> node.path, query_params |-> node.query_params, parent |-> i,
     segs |-> nodes[i].segs \o path, by |-> by, arg |-> arg]

Derive(i, r, by, arg) ==
    /\ Len(nodes) < MaxNodes
    /\ nodes' = Append(nodes, Made(r.node, i, <<>>, by, arg))
    /\ dicts' = r.heap
    /\ UNCHANGED ssevars

Child ==
    \E i \in DOMAIN nodes, path \in ChildPaths :
        /\ Len(nodes) < MaxNodes
        /\ nodes' = Append(nodes, Made(child(nodes[i], path), i, path, "child", Absent))
        /\ UNCHANGED <<dicts, ssevars>>

Truediv ==
    \E i \in DOMAIN nodes, path \in Segments :
        /\ Len(nodes) < MaxNodes
        /\ nodes' = Append(nodes, Made(truediv(nodes[i], path), i, <<path>>, "truediv", Absent))
        /\ UNCHANGED <<dicts, ssevars>>

OrderBy ==
    \E i \in DOMAIN nodes, loc \in Locations :
        Derive(i, order_by(dicts, nodes[i], loc), "order_by", PyStr(loc))

OrderByKey == \E i \in DOMAIN nodes : Derive(i, order_by_key(dicts, nodes[i]), "order_by_key", Absent)

OrderByValue ==
    \E i \in DOMAIN nodes : Derive(i, order_by_value(dicts, nodes[i]), "order_by_value", Absent)

OrderByPriority ==
    \E i \in DOMAIN nodes :
        Derive(i, order_by_priority(dicts, nodes[i]), "order_by_priority", Absent)

LimitToFirst ==
    \E i \in DOMAIN nodes, n \in Limits :
        Derive(i, limit_to_first(dicts, nodes[i], n), "limit_to_first", PyInteger(n))

LimitToLast ==
    \E i \in DOMAIN nodes, n \in Limits :
        Derive(i, limit_to_last(dicts, nodes[i], n), "limit_to_last", PyInteger(n))

StartAt ==
    \E i \in DOMAIN nodes, v \in FilterValues :
        Derive(i, start_at(dicts, nodes[i], v), "start_at", v)

EndAt ==
    \E i \in DOMAIN nodes, v \in FilterValues :
        Derive(i, end_at(dicts, nodes[i], v), "end_at", v)

EqualTo ==
    \E i \in DOMAIN nodes, v \in FilterValues :
        Derive(i, equal_to(dicts, nodes[i], v), "equal_to", v)

Shallow == \E i \in DOMAIN nodes : Derive(i, shallow(dicts, nodes[i]), "shallow", Absent)

ExportFormat ==
    \E i \in DOMAIN nodes : Derive(i, export_format(dicts, nodes[i]), "export_format", Absent)

Timeout ==
    \E i \in DOMAIN nodes, t \in Timeouts :
        Derive(i, timeout(dicts, nodes[i], t), "timeout", PyInteger(t))

WriteSizeLimit ==
    \E i \in DOMAIN nodes, l \in SizeLimit :
        Derive(i, write_size_limit(dicts, nodes[i], l), "write_size_limit", PyStr(l))

\* RtdbNode(_rtdb=rtdb, path="a", query_params={"auth": "mine"}): the dataclass's own
\* constructor, called by the program.
Construct ==
    /\ Len(nodes) < MaxNodes
    /\ nodes' = Append(nodes,
                    [path |-> <<"a">>, query_params |-> Len(dicts) + 1, parent |-> 0,
                     segs |-> <<<<"a">>>>, by |-> "constructed", arg |-> Absent])
    /\ dicts' = Append(dicts, [EmptyParams EXCEPT !["auth"] = PyStr(<<"mine">>)])
    /\ UNCHANGED ssevars

NodeInit == Init /\ stream = <<"put_obj">> /\ ~on_open

NodeNext ==
    \/ Child
    \/ Truediv
    \/ OrderBy
    \/ OrderByKey
    \/ OrderByValue
    \/ OrderByPriority
    \/ LimitToFirst
    \/ LimitToLast
    \/ StartAt
    \/ EndAt
    \/ EqualTo
    \/ Shallow
    \/ ExportFormat
    \/ Timeout
    \/ WriteSizeLimit

NodeSpec == NodeInit /\ [][NodeNext]_vars

(***************************************************************************)
(* The read loop on streams that the server may end inside the last block  *)
(* (its last cut bytes never arrive), with text outside ASCII.             *)
(***************************************************************************)
FramerBlocks == {"put_obj", "put_accent"}

FramerStreams == UNION {[1..n -> FramerBlocks] : n \in 1..MaxBlocks}

FramerInit ==
    /\ rtdb = Rtdb("http://127.0.0.1:9051", FALSE, NoneV, NoneV, NoneV)
    /\ stream \in FramerStreams
    /\ cut \in 0..(Len(Block(stream[Len(stream)])) - 1)
    /\ wire = SubSeq(Concat(stream), 1, Len(Concat(stream)) - cut)
    /\ on_open = FALSE
    /\ on_error = FALSE
    /\ Constructed

FramerNext ==
    \/ Open("ok")
    \/ TaskStart
    \/ \E k \in 0..Len(wire) : ReadChunk(k)
    \/ ServerEnd

FramerSpec == FramerInit /\ [][FramerNext]_vars

(***************************************************************************)
(* The subscription on a server that drifts from the protocol: blocks with *)
(* a line that holds no colon, or with a data value that is no JSON.       *)
(***************************************************************************)
DriftBlocks == {"put_obj", "no_colon", "bad_json"}

DriftStreams == UNION {[1..n -> DriftBlocks] : n \in 1..MaxBlocks}

DriftInit ==
    /\ rtdb = Rtdb("http://127.0.0.1:9051", FALSE, NoneV, NoneV, NoneV)
    /\ stream \in DriftStreams
    /\ cut = 0
    /\ wire = Concat(stream)
    /\ \E c \in Callbacks : on_open = c[1] /\ on_error = c[2]
    /\ Constructed

Next ==
    \/ \E outcome \in GetOutcomes : Open(outcome)
    \/ Close
    \/ TaskStart
    \/ \E k \in 0..Len(wire) : ReadChunk(k)
    \/ ServerEnd
    \/ TaskCancelled
    \/ RunOnMessage
    \/ RunOnOpen
    \/ RunOnError
    \/ Get

Spec == Init /\ [][Next]_vars

DriftSpec == DriftInit /\ [][Next]_vars

(***************************************************************************)
(* A call of snakeify_dict_keys on a JSON object.                          *)
(***************************************************************************)
corevars ==
    <<nodevars, reqvars, cut, utf8_split, get_requests, exitvars, stream, wire, on_open,
      on_error, main, get_outcome, raised, response, task, line_bytes, message_lines, ready,
      events, got, emitted, handled, on_open_calls, on_error_calls, rtdb, subs,
      connection_task, byte_queue, opened, errored>>

SnakeInit ==
    /\ rtdb = Rtdb("http://127.0.0.1:9051", FALSE, NoneV, NoneV, NoneV)
    /\ stream = <<"put_obj">>
    /\ cut = 0
    /\ wire = Concat(stream)
    /\ on_open = FALSE
    /\ on_error = FALSE
    /\ Idle
    /\ argument \in {v \in JsonValues(MaxDepth) : v.type = "dict"}
    /\ result = NoResult

Snakeify ==
    /\ result = NoResult
    /\ result' = snakeify_dict_keys(argument)
    /\ UNCHANGED <<corevars, argument>>

SnakeSpec == SnakeInit /\ [][Snakeify]_vars

(***************************************************************************)
(* A call of get_auth_request_exception on the body of an error response.  *)
(***************************************************************************)
AuthErrorInit ==
    /\ rtdb = Rtdb("http://127.0.0.1:9051", FALSE, NoneV, NoneV, NoneV)
    /\ stream = <<"put_obj">>
    /\ cut = 0
    /\ wire = Concat(stream)
    /\ on_open = FALSE
    /\ on_error = FALSE
    /\ Idle
    /\ argument \in Bodies
    /\ result = "pending"

GetAuthRequestException ==
    /\ result = "pending"
    /\ result' = get_auth_request_exception(argument)
    /\ UNCHANGED <<corevars, argument>>

AuthErrorSpec == AuthErrorInit /\ [][GetAuthRequestException]_vars

(***************************************************************************)
(* sse/SseClient.py, the older client: open() starts two tasks, connection *)
(* (connection_task) and message_emitter (task), joined by an              *)
(* asyncio.Queue (byte_queue), and waits for opened or errored; close()    *)
(* cancels each task and waits until its cancelled() is true.  A task is   *)
(* "created", at an await ("get", "reading", "queue_get"), "cancelling"    *)
(* (cancel() was accepted and the CancelledError is to be thrown at its    *)
(* await), "cancelled", or "failed" (over with an exception).              *)
(***************************************************************************)
twotask_frame ==
    <<nodevars, reqvars, exitvars, cut, utf8_split, get_requests, stream, on_open, on_error,
      response, ready, events, got, handled, rtdb, subs, argument, result>>

\* Task.cancel(): a task that is over is left as it is.
Task_cancel(t) == IF t \in {"failed", "cancelled"} THEN t ELSE "cancelling"

\* Task.cancelled()
Task_cancelled(t) == t = "cancelled"

\* One turn of the while loop of message_emitter with the chunk new_bytes.
message_emitter_turn(lb, ml, new_bytes) ==
    LET bytes == lb \o new_bytes IN
    IF ~utf8_ok(bytes)
    THEN [line_bytes |-> bytes, message_lines |-> ml, emit |-> FALSE, lines |-> <<>>]
    ELSE LET decoded_line == utf8_decode(bytes) IN
         IF ~endswith_lf(decoded_line)
         THEN [line_bytes |-> bytes, message_lines |-> ml, emit |-> FALSE, lines |-> <<>>]
         ELSE LET stripped_line == rstrip_lf(decoded_line) IN
              IF stripped_line = <<>>
              THEN [line_bytes |-> <<>>, message_lines |-> <<>>, emit |-> TRUE, lines |-> ml]
              ELSE [line_bytes |-> <<>>, message_lines |-> Append(ml, stripped_line),
                    emit |-> FALSE, lines |-> <<>>]

TwoTaskBlocks == {"put_obj", "no_colon", "no_event"}

TwoTaskInit ==
    /\ rtdb = Rtdb("http://127.0.0.1:9051", FALSE, NoneV, NoneV, NoneV)
    /\ stream \in {<<b>> : b \in TwoTaskBlocks}
    /\ cut = 0
    /\ wire = Concat(stream)
    /\ \E c \in Callbacks : on_open = c[1] /\ on_error = c[2]
    /\ Constructed

\* open(): both tasks are created; the caller enters its wait loop.
open_create_tasks ==
    /\ main = "init"
    /\ main' = "waiting"
    /\ connection_task' = "created"
    /\ task' = "created"
    /\ UNCHANGED <<twotask_frame, byte_queue, opened, errored, wire, line_bytes, message_lines,
                   emitted, raised, get_outcome, on_open_calls, on_error_calls>>

\* connection(): the session is made and the GET is sent.
connection_start ==
    /\ connection_task = "created"
    /\ connection_task' = "get"
    /\ UNCHANGED <<twotask_frame, main, task, byte_queue, opened, errored, wire, line_bytes,
                   message_lines, emitted, raised, get_outcome, on_open_calls, on_error_calls>>

\* connection(): the GET answers (opened, on_open, the read loop), or it raises
\* aiohttp.ClientConnectionError (errored, on_error, raise: the task is over).
connection_get(outcome) ==
    /\ connection_task = "get"
    /\ get_outcome' = outcome
    /\ IF outcome = "ok"
       THEN /\ connection_task' = "reading"
            /\ opened' = TRUE
            /\ on_open_calls' = IF on_open THEN on_open_calls + 1 ELSE on_open_calls
            /\ UNCHANGED <<errored, on_error_calls>>
       ELSE /\ connection_task' = "failed"
            /\ errored' = TRUE
            /\ on_error_calls' = IF on_error THEN on_error_calls + 1 ELSE on_error_calls
            /\ UNCHANGED <<opened, on_open_calls>>
    /\ UNCHANGED <<twotask_frame, main, task, byte_queue, wire, line_bytes, message_lines,
                   emitted, raised>>

\* connection(): read_nowait() gives the bytes received so far (here up to the end of
\* a line) and they are put on the queue.  A turn that reads nothing changes nothing.
connection_read ==
    /\ connection_task = "reading"
    /\ \E k \in 1..Len(wire) :
          /\ wire[k] = LF
          /\ byte_queue' = Append(byte_queue, SubSeq(wire, 1, k))
          /\ wire' = SubSeq(wire, k + 1, Len(wire))
    /\ UNCHANGED <<twotask_frame, main, connection_task, task, opened, errored, line_bytes,
                   message_lines, emitted, raised, get_outcome, on_open_calls, on_error_calls>>

\* The CancelledError thrown into connection() at its await leaves through the
\* "async with" and the try (it is no ClientConnectionError): the task is cancelled.
connection_cancelled ==
    /\ connection_task = "cancelling"
    /\ connection_task' = "cancelled"
    /\ UNCHANGED <<twotask_frame, main, task, byte_queue, opened, errored, wire, line_bytes,
                   message_lines, emitted, raised, get_outcome, on_open_calls, on_error_calls>>

\* message_emitter() runs to its first "await queue.get()".
message_emitter_start ==
    /\ task = "created"
    /\ task' = "queue_get"
    /\ UNCHANGED <<twotask_frame, main, connection_task, byte_queue, opened, errored, wire,
                   line_bytes, message_lines, emitted, raised, get_outcome, on_open_calls,
                   on_error_calls>>

\* message_emitter(): queue.get() gives a chunk; a complete blank line calls
\* emit_message, whose exception ends the task, and which else calls on_message.
message_emitter_step ==
    /\ task = "queue_get"
    /\ byte_queue # <<>>
    /\ byte_queue' = Tail(byte_queue)
    /\ LET f == message_emitter_turn(line_bytes, message_lines, Head(byte_queue))
           e == emit_message(f.lines)
       IN IF f.emit /\ e.exc # "none"
          THEN /\ task' = "failed"
               /\ raised' = e.exc
               /\ line_bytes' = f.line_bytes
               /\ UNCHANGED <<message_lines, emitted>>
          ELSE /\ line_bytes' = f.line_bytes
               /\ message_lines' = f.message_lines
               /\ emitted' = IF f.emit THEN Append(emitted, e.message[1]) ELSE emitted
               /\ UNCHANGED <<task, raised>>
    /\ UNCHANGED <<twotask_frame, main, connection_task, opened, errored, wire, get_outcome,
                   on_open_calls, on_error_calls>>

message_emitter_cancelled ==
    /\ task = "cancelling"
    /\ task' = "cancelled"
    /\ UNCHANGED <<twotask_frame, main, connection_task, byte_queue, opened, errored, wire,
                   line_bytes, message_lines, emitted, raised, get_outcome, on_open_calls,
                   on_error_calls>>

\* open(): "while not opened and not errored" ends and open() returns.
open_return ==
    /\ main = "waiting"
    /\ opened \/ errored
    /\ main' = "open"
    /\ UNCHANGED <<twotask_frame, connection_task, task, byte_queue, opened, errored, wire,
                   line_bytes, message_lines, emitted, raised, get_outcome, on_open_calls,
                   on_error_calls>>

\* close(): self._connection_task.cancel(), then the first wait loop.
close_cancel_connection ==
    /\ main = "open"
    /\ main' = "closing_connection"
    /\ connection_task' = Task_cancel(connection_task)
    /\ UNCHANGED <<twotask_frame, task, byte_queue, opened, errored, wire, line_bytes,
                   message_lines, emitted, raised, get_outcome, on_open_calls, on_error_calls>>

\* close(): the first loop ends; self._message_emitter_task.cancel(), the second loop.
close_cancel_message_emitter ==
    /\ main = "closing_connection"
    /\ Task_cancelled(connection_task)
    /\ main' = "closing_message_emitter"
    /\ task' = Task_cancel(task)
    /\ UNCHANGED <<twotask_frame, connection_task, byte_queue, opened, errored, wire, line_bytes,
                   message_lines, emitted, raised, get_outcome, on_open_calls, on_error_calls>>

\* close(): the second loop ends and close() returns.
close_return ==
    /\ main = "closing_message_emitter"
    /\ Task_cancelled(task)
    /\ main' = "closed"
    /\ UNCHANGED <<twotask_frame, connection_task, task, byte_queue, opened, errored, wire,
                   line_bytes, message_lines, emitted, raised, get_outcome, on_open_calls,
                   on_error_calls>>

TwoTaskNext ==
    \/ open_create_tasks
    \/ connection_start
    \/ connection_get("ok")
    \/ connection_get("ClientConnectionError")
    \/ connection_read
    \/ connection_cancelled
    \/ message_emitter_start
    \/ message_emitter_step
    \/ message_emitter_cancelled
    \/ open_return
    \/ close_cancel_connection
    \/ close_cancel_message_emitter
    \/ close_return

TwoTaskSpec == TwoTaskInit /\ [][TwoTaskNext]_vars

(***************************************************************************)
(* Two subscriptions of one connection, open at the same time.  Each call  *)
(* of events() makes its own queue, its own on_message closure and its own *)
(* SseClient, which holds its own response, task, line_bytes and           *)
(* message_lines: subs[i] holds them for call i, with the stream the       *)
(* server sends on that response.  The event loop (ready) and the          *)
(* connection (rtdb) are shared.                                           *)
(***************************************************************************)
pairframe ==
    <<nodevars, reqvars, exitvars, cut, utf8_split, get_requests, stream, wire, on_open,
      on_error, main, get_outcome, raised, response, task, line_bytes, message_lines, events,
      got, emitted, handled, on_open_calls, on_error_calls, rtdb, argument, result,
      connection_task, byte_queue, opened, errored>>

Subscription(names) ==
    [main |-> "init", response |-> "none", task |-> "none", stream |-> names,
     wire |-> Concat(names), line_bytes |-> <<>>, message_lines |-> <<>>,
     events |-> <<>>, emitted |-> <<>>]

\* One queue for every subscription: each event goes to the queue of the first.
put_event_shared(ss, i, event) == [ss EXCEPT ![1].events = queue_put(@, event)]

\* "await events.put(event)" in the on_message closure of call i of events().
put_event(ss, i, event) == [ss EXCEPT ![i].events = queue_put(@, event)]

PairInit ==
    /\ rtdb = Rtdb("http://127.0.0.1:9051", FALSE, NoneV, NoneV, NoneV)
    /\ stream = <<"put_obj">>
    /\ cut = 0
    /\ wire = Concat(stream)
    /\ on_open = FALSE
    /\ on_error = FALSE
    /\ main = "init"
    /\ get_outcome = "none"
    /\ raised = "none"
    /\ response = "none"
    /\ task = "none"
    /\ line_bytes = <<>>
    /\ message_lines = <<>>
    /\ ready = <<>>
    /\ events = <<>>
    /\ got = <<>>
    /\ emitted = <<>>
    /\ handled = <<>>
    /\ on_open_calls = 0
    /\ on_error_calls = 0
    /\ utf8_split = FALSE
    /\ get_requests = 0
    /\ close_calls = 0
    /\ body_exc = "none"
    /\ propagated = "none"
    /\ nodes = <<RootNode>>
    /\ dicts = <<>>
    /\ request = NoRequest
    /\ session = "none"
    /\ connection_task = "none"
    /\ byte_queue = <<>>
    /\ opened = FALSE
    /\ errored = FALSE
    /\ argument = "none"
    /\ result = "none"
    /\ subs = <<Subscription(<<"put_obj">>), Subscription(<<"patch_inner_null">>)>>

\* events(), call i: SseClient.open() with a GET that succeeds.
SubOpen(i) ==
    /\ subs[i].main = "init"
    /\ subs' = [subs EXCEPT ![i].main = "opened", ![i].response = "open",
                            ![i].task = "scheduled"]
    /\ UNCHANGED <<pairframe, ready>>

\* The read task of call i runs to the first suspension of its async for.
SubTaskStart(i) ==
    /\ subs[i].task = "scheduled"
    /\ subs' = [subs EXCEPT ![i].task = "waiting"]
    /\ UNCHANGED <<pairframe, ready>>

\* One iteration of the async for of call i with the next k bytes of its response.
SubReadChunk(i, k) ==
    /\ subs[i].task = "waiting"
    /\ LET sub == subs[i]
           r == FrameStep(sub.line_bytes, sub.message_lines, SubSeq(sub.wire, 1, k))
           e == emit_message(r.lines)
           rest == SubSeq(sub.wire, k + 1, Len(sub.wire))
       IN IF r.emit /\ e.exc # "none"
          THEN /\ subs' = [subs EXCEPT ![i].wire = rest, ![i].task = "failed"]
               /\ ready' = ready
          ELSE /\ subs' = [subs EXCEPT ![i].wire = rest,
                                       ![i].line_bytes = r.line_bytes,
                                       ![i].message_lines = r.message_lines,
                                       ![i].emitted = IF r.emit THEN Append(@, e.message[1])
                                                      ELSE @]
               /\ ready' = IF r.emit
                           THEN create_task(ready, [kind |-> "on_message",
                                                    message |-> e.message, call |-> i])
                           ELSE ready
    /\ UNCHANGED pairframe

\* The event loop runs the oldest ready task: the on_message closure of some call.
SubRunOnMessage ==
    /\ ready # <<>>
    /\ LET r == on_message(Head(ready).message[1]) IN
       subs' = IF r.exc = "none" THEN put_event(subs, Head(ready).call, r.event[1]) ELSE subs
    /\ ready' = Tail(ready)
    /\ UNCHANGED pairframe

\* The scope of call i is left: SseClient.close().
SubClose(i) ==
    /\ subs[i].main = "opened"
    /\ subs' = [subs EXCEPT ![i].main = "closed", ![i].response = "closed",
                            ![i].task = task_cancel(@)]
    /\ UNCHANGED <<pairframe, ready>>

SubTaskCancelled(i) ==
    /\ subs[i].task = "cancelling"
    /\ subs' = [subs EXCEPT ![i].task = "cancelled"]
    /\ UNCHANGED <<pairframe, ready>>

PairNext ==
    \/ \E i \in DOMAIN subs : SubOpen(i)
    \/ \E i \in DOMAIN subs : SubTaskStart(i)
    \/ \E i \in DOMAIN subs : \E k \in 1..Len(subs[i].wire) : SubReadChunk(i, k)
    \/ SubRunOnMessage
    \/ \E i \in DOMAIN subs : SubClose(i)
    \/ \E i \in DOMAIN subs : SubTaskCancelled(i)

PairSpec == PairInit /\ [][PairNext]_vars

(***************************************************************************)
(* Line-aligned delivery: "async for ... in self.response.content" hands   *)
(* the body over line by line, each chunk one line with its newline.  The  *)
(* streams hold blocks that make a message and blocks that make none.      *)
(***************************************************************************)
MessageBlocks == {"put_obj", "origin_url", "keepalive_null"}

OtherBlocks == {"blank", "no_event", "with_id", "comment"}

LineStreams == UNION {[1..n -> MessageBlocks \cup OtherBlocks] : n \in 1..MaxBlocks}

LineInit ==
    /\ rtdb = Rtdb("http://127.0.0.1:9051", FALSE, NoneV, NoneV, NoneV)
    /\ stream \in LineStreams
    /\ cut = 0
    /\ wire = Concat(stream)
    /\ on_open = FALSE
    /\ on_error = FALSE
    /\ Constructed

ReadLine ==
    \E k \in 1..Len(wire) :
        /\ wire[k] = LF
        /\ \A j \in 1..(k - 1) : wire[j] # LF
        /\ ReadChunk(k)

LineNext ==
    \/ Open("ok")
    \/ TaskStart
    \/ ReadLine
    \/ ServerEnd

LineSpec == LineInit /\ [][LineNext]_vars

(***************************************************************************)
(* A program that builds nodes on one of several connections and then      *)
(* subscribes to one of them: events() makes the client and open() the GET. *)
(***************************************************************************)
RequestInit ==
    /\ rtdb \in Rtdbs
    /\ stream = <<"put_obj">>
    /\ cut = 0
    /\ wire = Concat(stream)
    /\ on_open = FALSE
    /\ on_error = FALSE
    /\ Constructed

RequestNext ==
    \/ Child
    \/ Truediv
    \/ OrderBy
    \/ Construct
    \/ Open("ok")

RequestSpec == RequestInit /\ [][RequestNext]_vars

(***************************************************************************)
(* The subscription with its faults: the connection may break under the    *)
(* read loop, and the body of the scope may raise.                         *)
(***************************************************************************)
FaultBlocks == {"put_obj", "keepalive_null"}

FaultInit == Init /\ \A i \in DOMAIN stream : stream[i] \in FaultBlocks

FaultNext == Next \/ CloseOnRaise \/ StreamError

FaultSpec == FaultInit /\ [][FaultNext]_vars

(***************************************************************************)
(* Definitions used by the properties.                                     *)
(***************************************************************************)
IsPrefix(a, b) == Len(a) <= Len(b) /\ a = SubSeq(b, 1, Len(a))

\* The messages of the stream's blocks, each taken alone, in block order.
Expected == [i \in 1..Len(stream) |-> BlockMessage(stream[i])]

\* Everything the queue has ever held, in the order the consumer sees it.
Delivered == got \o events

\* The events of the messages that on_message accepts, in order.
RECURSIVE EventsOf(_)
EventsOf(msgs) ==
    IF msgs = <<>> THEN <<>>
    ELSE on_message(msgs[1]).event \o EventsOf(Tail(msgs))

PendingKind(kind) == Cardinality({i \in 1..Len(ready) : ready[i].kind = kind})

\* The number of on_message runs among the first i that put an event on the queue.
PutCount(i) == Cardinality({j \in 1..i : handled[j].exc = "none"})

PutEvent == RtdbEvent(<<"put">>, "/a", "1")

KeepAliveEvent == RtdbEvent(<<"keep-alive">>, NoneV, NoneV)

\* An error has reached the subscriber: open() raised, or on_error was scheduled or run.
ErrorObserved == raised # "none" \/ on_error_calls > 0 \/ PendingKind("on_error") > 0

C2_DeliveryOrder ==
    /\ Len(handled) + PendingKind("on_message") = Len(emitted)
    /\ \A i \in 1..Len(handled) : handled[i].message = emitted[i]
    /\ Delivered = EventsOf(SubSeq(emitted, 1, Len(handled)))

\* Two different events wait in the queue, undrained, after the scope was closed.
C2_Witness ==
    /\ got = <<>>
    /\ Len(events) = 2
    /\ events[1] # events[2]
    /\ main = "closed"

(***************************************************************************)
(* C3.  Clean shutdown: once close() has returned, on_message is never run *)
(* again (and so no event is added to the queue).                          *)
(***************************************************************************)
C3_NoRunAfterClose == \A i \in 1..Len(handled) : ~handled[i].closed

(***************************************************************************)
(* C4.  Connect failure: when the GET fails with a connection error or the *)
(* status is not a success, the caller gets RtdbEventStreamException, no   *)
(* read task exists, on_message never runs and no event reaches a queue.   *)
(***************************************************************************)
C4_ConnectFailure ==
    get_outcome \in {"ClientConnectionError", "bad_status"} =>
        /\ main = "failed"
        /\ raised = "RtdbEventStreamException"
        /\ task = "none"
        /\ PendingKind("on_message") = 0
        /\ emitted = <<>> /\ handled = <<>> /\ events = <<>> /\ got = <<>>

C4_Witness ==
    /\ get_outcome = "bad_status"
    /\ raised = "RtdbEventStreamException"
    /\ on_error_calls = 1

(***************************************************************************)
(* C5.  Unknown event names are rejected, not dropped: once on_message has *)
(* run on a message whose event name is not a known kind, the subscriber   *)
(* has observed an error.                                                  *)
(***************************************************************************)
C5_UnknownEventObserved ==
    \A i \in 1..Len(handled) : handled[i].message.event \notin EventType => ErrorObserved

(***************************************************************************)
(* C6.  keep-alive carries no payload: every delivered event of kind       *)
(* keep-alive has path None and data None, whatever the message's data.    *)
(***************************************************************************)
C6_KeepAliveNoPayload ==
    \A i \in 1..Len(Delivered) :
        Delivered[i].event = <<"keep-alive">> =>
            Delivered[i].path = NoneV /\ Delivered[i].data = NoneV

(***************************************************************************)
(* C7.  put/patch mapping: a put or patch message whose data is an object  *)
(* with path and data is delivered as an event of that kind with that path *)
(* and that data (None included).                                          *)
(***************************************************************************)
C7_PutPatchMapping ==
    \A i \in 1..Len(handled) :
        LET m == handled[i].message IN
        (/\ m.event \in {<<"put">>, <<"patch">>}
         /\ m.data.type = "dict"
         /\ {"path", "data"} \subseteq m.data.keys) =>
            /\ handled[i].exc = "none"
            /\ PutCount(i) <= Len(Delivered)
            /\ Delivered[PutCount(i)] = [event |-> m.event, path |-> m.data.path,
                                          data |-> m.data.data]

\* The patch whose inner data is null has been delivered and taken by the consumer.
C7_Witness == \E i \in 1..Len(got) : got[i] = RtdbEvent(<<"patch">>, "/b", NoneV)

(***************************************************************************)
(* C8.  As claimed: a put message followed by a keep-alive message         *)
(* delivers one event, the put, and none for the keep-alive.               *)
(***************************************************************************)
C8_Case ==
    /\ emitted = <<BlockMessage("put_obj"), BlockMessage("keepalive_null")>>
    /\ Len(handled) = 2

C8_KeepAliveZeroEvents == C8_Case => Delivered = <<PutEvent>>

(***************************************************************************)
(* C8, amended.  A put message followed by a keep-alive message delivers   *)
(* two events, the put and then a keep-alive event with path None and data *)
(* None; every keep-alive message without data yields one event.           *)
(***************************************************************************)
C8_KeepAliveDelivered ==
    /\ C8_Case => Delivered = <<PutEvent, KeepAliveEvent>>
    /\ \A i \in 1..Len(handled) :
          (handled[i].message.event = <<"keep-alive">> /\ handled[i].message.data = PyNone) =>
              /\ handled[i].exc = "none"
              /\ PutCount(i) <= Len(Delivered)
              /\ Delivered[PutCount(i)] = KeepAliveEvent

C8_Witness == C8_Case /\ got = <<PutEvent, KeepAliveEvent>>

(***************************************************************************)
(* C9.  Event invariant: every delivered put or patch event has a path,    *)
(* and a put or patch message whose data is absent or not an object ends   *)
(* in an error, with no event put on the queue.                            *)
(***************************************************************************)
C9_PutPatchCarryPath ==
    /\ \A i \in 1..Len(Delivered) :
          Delivered[i].event \in {<<"put">>, <<"patch">>} => Delivered[i].path # NoneV
    /\ \A i \in 1..Len(handled) :
          (/\ handled[i].message.event \in {<<"put">>, <<"patch">>}
           /\ handled[i].message.data.type # "dict") => handled[i].exc # "none"

(***************************************************************************)
(* C10.  After a successful open() with on_open supplied, on_open runs     *)
(* exactly once: once the read task has started or ended, on_open has run  *)
(* once or is waiting to run, and it runs before every on_message.         *)
(***************************************************************************)
C10_OnOpenOnce ==
    on_open =>
        /\ on_open_calls <= 1
        /\ (task \in {"waiting", "cancelled", "done", "failed"} =>
               on_open_calls + PendingKind("on_open") = 1)
        /\ (handled # <<>> => on_open_calls = 1)

(***************************************************************************)
(* C11.  When opening fails (a connection error, a non-success status, or  *)
(* a failure of the GET that is no ClientConnectionError) and on_error is  *)
(* supplied, on_error is invoked exactly once, on_open never, and the      *)
(* caller receives RtdbEventStreamException.                               *)
(***************************************************************************)
C11_OpenFailureRule ==
    (get_outcome \in {"ClientConnectionError", "bad_status", "OtherError"} /\ on_error) =>
        /\ on_error_calls + PendingKind("on_error") = 1
        /\ on_open_calls + PendingKind("on_open") = 0
        /\ raised = "RtdbEventStreamException"

(***************************************************************************)
(* C13.  Shutdown ordering: the response is never closed while the read    *)
(* task is still live (not yet started, suspended, or with its             *)
(* cancellation still to be delivered).                                    *)
(***************************************************************************)
C13_ResponseClosedAfterTask ==
    response = "closed" => task \notin {"scheduled", "waiting", "cancelling"}

\* C12: close() after a successful open() returns, without raising and without
\* waiting, in whatever state the read task is: waiting for bytes, finished because
\* the server ended the stream, or ended by an exception.
C12_CloseReturns ==
    /\ main \notin {"close_raised", "closing"}
    /\ close_calls > 0 => main = "closed" /\ response = "closed"

C12_Witness == main = "closed" /\ task = "failed" /\ wire # <<>>

\* C14: a scope that was entered ends with close() called exactly once, whether the
\* body ended normally or raised, and the exception of the body leaves the scope
\* as it was raised.
C14_CloseOnceAndPropagate ==
    /\ main \in {"init", "failed", "opened"} => close_calls = 0
    /\ main = "closed" => close_calls = 1 /\ propagated = body_exc

C14_Witness == main = "closed" /\ body_exc = "ConsumerError" /\ propagated = "ConsumerError"

\* C20: one open() issues at most one GET; once the stream has ended or broken the
\* read loop is over for good, no further message is handed to on_message, and
\* leaving the scope still ends in a returned close().
C20_NoReconnect ==
    [][/\ get_requests' <= 1
       /\ task \in {"done", "failed"} =>
              /\ task' = task
              /\ emitted' = emitted
              /\ get_requests' = get_requests
              /\ wire' = wire
              /\ main' # main => main' = "closed" /\ propagated' = body_exc']_vars

C20_Witness ==
    /\ task = "failed" /\ wire # <<>> /\ get_requests = 1
    /\ main = "closed" /\ Len(emitted) = 1 /\ Len(got) = 1
\* The parameter map of node i: {} stands for None as well.
ParamsOf(ns, heap, i) == query_params_or_empty(heap, ns[i])

Builders ==
    {"order_by", "order_by_key", "order_by_value", "order_by_priority", "limit_to_first",
     "limit_to_last", "start_at", "end_at", "equal_to", "shallow", "export_format",
     "timeout", "write_size_limit"}

BuilderKey(by) ==
    CASE by \in {"order_by", "order_by_key", "order_by_value", "order_by_priority"} -> "orderBy"
      [] by = "limit_to_first" -> "limitToFirst"
      [] by = "limit_to_last" -> "limitToLast"
      [] by = "start_at" -> "startAt"
      [] by = "end_at" -> "endAt"
      [] by = "equal_to" -> "equalTo"
      [] by = "shallow" -> "shallow"
      [] by = "export_format" -> "format"
      [] by = "timeout" -> "timeout"
      [] by = "write_size_limit" -> "writeSizeLimit"

\* C15: no builder call changes the path or the parameters of a node that exists,
\* whether it is the receiver or not, and no two nodes hold the same dictionary.
C15_NodesImmutable ==
    [][/\ \A i \in DOMAIN nodes :
             /\ nodes'[i].path = nodes[i].path
             /\ (nodes'[i].query_params = 0) = (nodes[i].query_params = 0)
             /\ ParamsOf(nodes', dicts', i) = ParamsOf(nodes, dicts, i)
       /\ \A i, j \in DOMAIN nodes' :
             i # j /\ nodes'[i].query_params # 0 =>
                 nodes'[i].query_params # nodes'[j].query_params]_vars

C15_Witness ==
    \E i, j \in DOMAIN nodes :
        /\ nodes[j].parent = i /\ nodes[i].parent = 1
        /\ nodes[i].query_params # 0 /\ nodes[j].query_params # 0
        /\ nodes[i].by = nodes[j].by
        /\ ParamsOf(nodes, dicts, i) # ParamsOf(nodes, dicts, j)

\* C16: a node made by a query builder has its receiver's path, and its parameter
\* map is the receiver's with the builder's one key set: every other entry is the
\* receiver's, and the builder applied again with another argument replaces the value.
C16_BuilderSetsOneKey ==
    \A j \in DOMAIN nodes :
        nodes[j].by \in Builders =>
            LET i == nodes[j].parent
                key == BuilderKey(nodes[j].by)
                mine == ParamsOf(nodes, dicts, j)
                theirs == ParamsOf(nodes, dicts, i)
            IN /\ nodes[j].path = nodes[i].path
               /\ mine[key] # Absent
               /\ \A k \in ParamKeys \ {key} : mine[k] = theirs[k]
               /\ nodes[i].by = nodes[j].by /\ nodes[i].arg # nodes[j].arg =>
                      mine[key] # theirs[key]
               /\ nodes[i].by = nodes[j].by /\ nodes[i].arg = nodes[j].arg =>
                      mine = theirs

C16_Witness ==
    \E j \in DOMAIN nodes :
        /\ nodes[j].by = "limit_to_first" /\ nodes[nodes[j].parent].by = "order_by"
        /\ ParamsOf(nodes, dicts, j)["orderBy"] = PyStr(<<DQ, "k", DQ>>)
        /\ ParamsOf(nodes, dicts, j)["limitToFirst"] = PyStr(<<"2">>)

\* The text is the segments in their order with one slash between neighbours.
SlashJoined(text, segs) ==
    /\ Len(text) = 2 * Len(segs) - 1
    /\ \A k \in 1..Len(text) :
          text[k] = IF k % 2 = 1 THEN segs[(k + 1) \div 2][1] ELSE SLASH

\* C17: the path of a node reached by child calls (or by /) from the root is the
\* segments given on the way, in order, joined by "/", with no slash at either end,
\* however the segments were split over the calls.
C17_ChildPath ==
    \A j \in DOMAIN nodes :
        nodes[j].segs # <<>> => SlashJoined(nodes[j].path, nodes[j].segs)

C17_Witness ==
    \E i, j \in DOMAIN nodes :
        /\ nodes[i].by = "child" /\ nodes[i].parent = 1 /\ Len(nodes[i].segs) = 1
        /\ nodes[j].by = "truediv" /\ nodes[j].parent = i
        /\ nodes[j].path = <<"a", SLASH, "b">>
\* The blocks of the stream that the server sent whole.
CompleteBlocks == IF cut = 0 THEN stream ELSE SubSeq(stream, 1, Len(stream) - 1)

\* C18: when the stream ends inside a block, with a partial line or with field lines
\* that no blank line followed, the read loop ends without an exception and nothing
\* is emitted for the unfinished block: the messages emitted are no more than the
\* blocks sent whole, and each field they carry is a field of one of those.
C18_UnfinishedDiscarded ==
    cut > 0 =>
        /\ task # "failed"
        /\ Len(emitted) <= Len(CompleteBlocks)
        /\ \A i \in DOMAIN emitted :
              /\ \E j \in DOMAIN CompleteBlocks :
                    emitted[i].data = BlockMessage(CompleteBlocks[j]).data
              /\ \E j \in DOMAIN CompleteBlocks :
                    emitted[i].origin = BlockMessage(CompleteBlocks[j]).origin

C18_Witness ==
    /\ cut > 0 /\ task = "done"
    /\ line_bytes # <<>> /\ message_lines # <<>>
    /\ stream = <<"put_accent", "put_obj">> /\ emitted = <<BlockMessage("put_accent")>>

\* The bytes the server sends before it ends the stream.
SentBytes == SubSeq(Concat(stream), 1, Len(Concat(stream)) - cut)

C22_StreamRequestShape ==
    request.method # "none" =>
        LET self == nodes[request.node]
            mine == ParamsOf(nodes, dicts, request.node)
            given == session_headers(rtdb)
        IN /\ request.method = "GET"
           /\ request.url = <<rtdb.database_url[1], SLASH>> \o self.path \o <<".json">>
           /\ DOMAIN request.headers = DOMAIN given \cup {"Accept"}
           /\ request.headers["Accept"] = <<"text/event-stream">>
           /\ \A k \in DOMAIN given \ {"Accept"} : request.headers[k] = given[k]
           /\ \A k \in ParamKeys : request.params[k] = mine[k]
           /\ request.params["auth"] =
                 IF rtdb.id_token \in {NoneV, ""} THEN mine["auth"] ELSE PyStr(<<rtdb.id_token>>)

C22_Witness ==
    /\ request.method = "GET"
    /\ rtdb.accept = "application/json" /\ rtdb.id_token = "tok"
    /\ nodes[request.node].by = "constructed"
    /\ request.params["auth"] = PyStr(<<"tok">>)
    /\ request.url = <<"https://db.example", SLASH, "a", ".json">>

\* C29: a node made by child() or by / has no query parameters, whatever its
\* receiver carried, and a request made from it has no parameter but the
\* connection's auth.
C29_ChildDropsParams ==
    /\ \A j \in DOMAIN nodes :
          nodes[j].by \in {"child", "truediv"} => nodes[j].query_params = 0
    /\ (request.method # "none" /\ nodes[request.node].by \in {"child", "truediv"}) =>
          /\ \A k \in ParamKeys : request.params[k] = Absent
          /\ request.params["auth"] =
                IF rtdb.id_token \in {NoneV, ""} THEN Absent ELSE PyStr(<<rtdb.id_token>>)

C29_Witness ==
    /\ request.method = "GET"
    /\ nodes[request.node].by = "child"
    /\ nodes[nodes[request.node].parent].by = "order_by"
    /\ rtdb.id_token = "tok"
    /\ request.params = [EmptyParams EXCEPT !["auth"] = PyStr(<<"tok">>)]
\* C28: when the subscription is over (close() has returned after a successful
\* open, or open() has raised) the ClientSession that open() made is no longer
\* open, and after close() the response is closed.
C28_SessionReleased ==
    /\ main \in {"closed", "failed"} => session # "open"
    /\ main = "closed" => response = "closed"
\* The message each block stands for: field names and values trimmed, data decoded.
LineMessage(name) ==
    CASE name = "put_obj" ->
             [event |-> <<"put">>, data |-> PyDict("/a", "1"), origin |-> NoText,
              last_event_id |-> NoText]
      [] name = "origin_url" ->
             [event |-> <<"put">>, data |-> PyNone,
              origin |-> SomeText(<<"http", COLON, "//x">>), last_event_id |-> NoText]
      [] name = "keepalive_null" ->
             [event |-> <<"keep-alive">>, data |-> PyNone, origin |-> NoText,
              last_event_id |-> NoText]

\* The bytes of the blocks after the first k.
Rest(k) == Concat(SubSeq(stream, k + 1, Len(stream)))

\* The number of blocks whose blank line has been read.
BlocksRead == CHOOSE k \in 0..Len(stream) : Len(Rest(k)) >= Len(wire) /\
                  \A j \in 0..Len(stream) : Len(Rest(j)) >= Len(wire) => j <= k

\* C26: with line-aligned delivery of blocks that each make a message, the read loop
\* never fails, the messages emitted are at every moment those of the blocks whose
\* blank line has been read, one per block and in order, with names and values
\* trimmed, data decoded and colons inside a value kept; and between two blocks
\* the line accumulator and the line buffer are empty.
C26_LineAlignedFraming ==
    (\A i \in DOMAIN stream : stream[i] \in MessageBlocks) =>
        /\ task # "failed"
        /\ task \in {"waiting", "done"} =>
              emitted = [i \in 1..BlocksRead |-> LineMessage(stream[i])]
        /\ wire = Rest(BlocksRead) => line_bytes = <<>> /\ message_lines = <<>>

C26_Witness ==
    /\ stream = <<"origin_url", "put_obj">>
    /\ wire = Rest(1) /\ task = "waiting"
    /\ emitted = <<LineMessage("origin_url")>>

\* The blocks of the stream that make a message, in order.
RECURSIVE MessagesOf(_)
MessagesOf(names) ==
    IF names = <<>> THEN <<>>
    ELSE (IF names[1] \in MessageBlocks THEN <<LineMessage(names[1])>> ELSE <<>>)
             \o MessagesOf(Tail(names))

\* C30: a block that cannot be turned into a message (a blank line alone, a block
\* without event, a block with a field that SseMessage does not have, a comment
\* line) does not stop the stream: the read loop does not fail, and with the stream
\* read the messages of all the other blocks have been emitted.
C30_BadBlockSkipped ==
    /\ task # "failed"
    /\ (wire = <<>> /\ task \in {"waiting", "done"}) => emitted = MessagesOf(stream)
\* The snake_case of each key of the model.
SnakeKey(key) ==
    CASE key = <<"a", "a">> -> <<"a", "a">>
      [] key = <<"c", "C">> -> <<"c", "_", "c">>
      [] key = <<"N", "b">> -> <<"n", "b">>
      [] key = <<"s", "_", "k">> -> <<"s", "_", "k">>
      [] key = <<"a", "-", "b">> -> <<"a", "_", "b">>

\* w is v with the keys of every object in it converted, and nothing else changed.
RECURSIVE Snaked(_, _)
Snaked(v, w) ==
    /\ w.type = v.type
    /\ w.s = v.s
    /\ w.n = v.n
    /\ Len(w.items) = Len(v.items)
    /\ \A i \in DOMAIN v.items :
          /\ w.items[i].key = (IF v.type = "dict" THEN SnakeKey(v.items[i].key) ELSE <<>>)
          /\ Snaked(v.items[i].value, w.items[i].value)

\* C24: snakeify_dict_keys returns its argument with the keys of every object,
\* at every depth, inside lists and inside objects, in snake_case, and with every
\* other value, the order and the length of every list as they were.
C24_SnakeifyAllDepths == result # NoResult => Snaked(argument, result)

\* An object inside a list inside an object has had its key converted, and the
\* camelCase string next to it is as it was.
C24_Witness ==
    /\ argument = JDict(<<Item(<<"N", "b">>,
                               JList(<<JDict(<<Item(<<"c", "C">>, JNum(1))>>),
                                       JStr(<<"b", "C">>)>>))>>)
    /\ result = JDict(<<Item(<<"n", "b">>,
                             JList(<<JDict(<<Item(<<"c", "_", "c">>, JNum(1))>>),
                                     JStr(<<"b", "C">>)>>))>>)
\* The classes that the keys matching the start of the message are mapped to.
MatchedClasses(message) ==
    {AUTH_REQUEST_EXCEPTION_MAPPING[i].exception :
        i \in {j \in DOMAIN AUTH_REQUEST_EXCEPTION_MAPPING :
                  IsPrefix(AUTH_REQUEST_EXCEPTION_MAPPING[j].key, message)}}

HasMessage(body) ==
    body.type = "dict" /\ body.error.type = "dict" /\ body.error.message.type = "str"

\* C25: get_auth_request_exception returns a class for every body: the base
\* AuthRequestException for a body that is no dict, has no dict under "error" or no
\* str under "message", or whose message starts with no key; and for a message
\* that starts with a key the class of that key, which is the same for every key
\* the message starts with; no key of the mapping is the start of another.
C25_AuthExceptionLookup ==
    /\ \A i, j \in DOMAIN AUTH_REQUEST_EXCEPTION_MAPPING :
          i # j => ~IsPrefix(AUTH_REQUEST_EXCEPTION_MAPPING[i].key,
                             AUTH_REQUEST_EXCEPTION_MAPPING[j].key)
    /\ result # "pending" =>
          IF ~HasMessage(argument) THEN result = "AuthRequestException"
          ELSE LET classes == MatchedClasses(argument.error.message.s) IN
               /\ Cardinality(classes) <= 1
               /\ classes = {} => result = "AuthRequestException"
               /\ classes # {} => result \in classes

C25_Witness ==
    /\ argument = ErrorBody(<<"W", "E", "A", "K", "_", "P", "A", "S", "S", "W", "O", "R", "D",
                              " ", ":", " ", "x">>)
    /\ result = "WeakPassword"
\* C27: in the older client close() always returns: whenever it waits in one of its
\* "while not task.cancelled()" loops, the task it waits for is cancelled or is
\* being cancelled, never over with an exception (a state that no step changes and
\* in which cancelled() stays false).
C27_CloseReturns ==
    /\ main = "closing_connection" => connection_task \in {"cancelling", "cancelled"}
    /\ main = "closing_message_emitter" => task \in {"cancelling", "cancelled"}
RECURSIVE MessagesFramed(_)
MessagesFramed(names) ==
    IF names = <<>> THEN <<>>
    ELSE <<BlockMessage(names[1])>> \o MessagesFramed(Tail(names))

OwnEventsOnly ==
    \A i \in DOMAIN subs :
        /\ IsPrefix(subs[i].emitted, MessagesFramed(subs[i].stream))
        /\ IsPrefix(subs[i].events, EventsOf(MessagesFramed(subs[i].stream)))

CloseLeavesOther ==
    \A i, j \in DOMAIN subs :
        (i # j /\ subs[i].main = "opened" /\ subs'[i].main = "closed") => subs'[j] = subs[j]

\* C23: of two subscriptions open at the same time, each frames only the bytes of
\* its own response and its queue receives only the events of its own stream, in
\* order; the step that closes one changes nothing of the other (its read task, its
\* buffers, its queue).
C23_SubscriptionIsolation == []OwnEventsOnly /\ [][CloseLeavesOther]_vars

C23_Witness ==
    /\ subs[1].main = "closed"
    /\ subs[1].task = "cancelled"
    /\ subs[1].events = EventsOf(MessagesFramed(subs[1].stream))
    /\ subs[2].main = "opened"
    /\ subs[2].task = "waiting"
    /\ subs[2].events = EventsOf(MessagesFramed(subs[2].stream))
    /\ subs[1].events # subs[2].events
====
